---- MODULE Spec2Model ----
(***************************************************************************)
(* creme.drift.DDM (src/creme/drift/ddm.py): the Drift Detection Method.   *)
(*                                                                         *)
(* One detector object is modelled as the record ddm; its operations are   *)
(* reset() and add_element(prediction).                                    *)
(*                                                                         *)
(* Numbers.  The statistics are Python floats, i.e. IEEE-754 binary        *)
(* floating point with round-to-nearest-even after every operation.  The  *)
(* model keeps the format and the rounding rule and every operation of     *)
(* the source is a rounded operation here (FAdd, FSub, FMul, FDiv, FSqrt), *)
(* but the significand has Precision bits instead of 53, so that the       *)
(* integers of the checker suffice.  A float is the record                 *)
(*     [k |-> kind, s |-> sign, m |-> significand, e |-> exponent]         *)
(* of value s * m * 2^e when k = "fin", with m = 0 or                      *)
(* 2^(Precision-1) <= m < 2^Precision.                                     *)
(***************************************************************************)
EXTENDS Integers, Sequences, FiniteSets, TLC

\* ------------------------------------------------------------------ bounds

\* Bits of the significand of a float (53 in the source's binary64).
Precision == 11

\* add_element is called while sample_count <= MaxSampleCount.
MaxSampleCount == 9

\* min_num_instances is drawn from 1..MaxMinInstances.
MaxMinInstances == 4

\* The owner calls reset() at most MaxResets times in a row.
MaxResets == 2

\* ------------------------------------------------------------------ floats

Pow2(n) == 2 ^ n

Abs(i) == IF i < 0 THEN -i ELSE i

Sgn(i) == IF i < 0 THEN -1 ELSE 1

RECURSIVE BitLen(_)
BitLen(n) == IF n = 0 THEN 0 ELSE 1 + BitLen(n \div 2)

Fin(s, m, e) == [k |-> "fin", s |-> s, m |-> m, e |-> e]

Zero == Fin(1, 0, 0)

Inf == [k |-> "inf", s |-> 1, m |-> 0, e |-> 0]

NegInf == [k |-> "inf", s |-> -1, m |-> 0, e |-> 0]

NaN == [k |-> "nan", s |-> 1, m |-> 0, e |-> 0]

\* Python's None, the value of every attribute before the first reset().
None == [k |-> "none", s |-> 1, m |-> 0, e |-> 0]

\* The float nearest to s * (n + t) * 2^e, where 0 <= t < 1 and t > 0 iff
\* sticky: round to nearest, ties to even.
FRound(s, n, e, sticky) ==
    IF n = 0 THEN Zero
    ELSE LET len == BitLen(n)
         IN  IF len <= Precision
             THEN Fin(s, n * Pow2(Precision - len), e - (Precision - len))
             ELSE LET sh   == len - Precision
                      q    == n \div Pow2(sh)
                      r    == n % Pow2(sh)
                      half == Pow2(sh - 1)
                      up   == \/ r > half
                              \/ (r = half /\ sticky)
                              \/ (r = half /\ q % 2 = 1)
                      m    == IF up THEN q + 1 ELSE q
                  IN  IF m = Pow2(Precision)
                      THEN Fin(s, Pow2(Precision - 1), e + sh + 1)
                      ELSE Fin(s, m, e + sh)

\* float(i) for an integer i.
FromInt(i) == FRound(Sgn(i), Abs(i), 0, FALSE)

\* The float literal n * 2^e.
Lit(n, e) == FRound(1, n, e, FALSE)

One == FromInt(1)

FNeg(a) ==
    IF a.k = "nan" \/ (a.k = "fin" /\ a.m = 0) THEN a ELSE [a EXCEPT !.s = -a.s]

\* a + b
FAdd(a, b) ==
    IF a.k = "nan" \/ b.k = "nan" THEN NaN
    ELSE IF a.k = "inf" /\ b.k = "inf" THEN (IF a.s = b.s THEN a ELSE NaN)
    ELSE IF a.k = "inf" THEN a
    ELSE IF b.k = "inf" THEN b
    ELSE IF a.m = 0 THEN b
    ELSE IF b.m = 0 THEN a
    ELSE LET lo  == IF a.e < b.e THEN a.e ELSE b.e
             sum == a.s * a.m * Pow2(a.e - lo) + b.s * b.m * Pow2(b.e - lo)
         IN  FRound(Sgn(sum), Abs(sum), lo, FALSE)

\* a - b
FSub(a, b) == FAdd(a, FNeg(b))

\* a * b
FMul(a, b) ==
    IF a.k = "nan" \/ b.k = "nan" THEN NaN
    ELSE IF a.k = "inf" \/ b.k = "inf"
         THEN (IF (a.k = "fin" /\ a.m = 0) \/ (b.k = "fin" /\ b.m = 0)
               THEN NaN
               ELSE IF a.s = b.s THEN Inf ELSE NegInf)
    ELSE FRound(a.s * b.s, a.m * b.m, a.e + b.e, FALSE)

\* a / b.  Python raises ZeroDivisionError for b = 0.0; the divisor of the
\* source is float(sample_count) with sample_count >= 1, and NaN stands for
\* the exception.
FDiv(a, b) ==
    IF a.k = "nan" \/ b.k = "nan" THEN NaN
    ELSE IF a.k = "inf" THEN (IF b.k = "inf" THEN NaN
                              ELSE IF a.s = b.s THEN Inf ELSE NegInf)
    ELSE IF b.k = "inf" THEN Zero
    ELSE IF b.m = 0 THEN NaN
    ELSE IF a.m = 0 THEN Zero
    ELSE LET num == a.m * Pow2(Precision + 2)
         IN  FRound(a.s * b.s, num \div b.m, a.e - b.e - (Precision + 2),
                    num % b.m # 0)

RECURSIVE ISqrtFrom(_, _, _)
ISqrtFrom(n, r, bit) ==
    IF bit = 0 THEN r
    ELSE IF (r + bit) * (r + bit) <= n
         THEN ISqrtFrom(n, r + bit, bit \div 2)
         ELSE ISqrtFrom(n, r, bit \div 2)

\* The integer part of the square root of n < 2^(2 * Precision + 4).
ISqrt(n) == ISqrtFrom(n, 0, Pow2(Precision + 1))

\* np.sqrt(a): NaN for a negative argument.
FSqrt(a) ==
    IF a.k = "nan" THEN NaN
    ELSE IF a.k = "inf" THEN (IF a.s = 1 THEN Inf ELSE NaN)
    ELSE IF a.m = 0 THEN Zero
    ELSE IF a.s = -1 THEN NaN
    ELSE LET sh == IF (a.e - (Precision + 3)) % 2 = 0
                   THEN Precision + 3 ELSE Precision + 4
             n  == a.m * Pow2(sh)
             r  == ISqrt(n)
         IN  FRound(1, r, (a.e - sh) \div 2, r * r # n)

\* The sign (-1, 0, 1) of a - b for finite a and b, exactly.
CmpFin(a, b) ==
    IF a.m = 0 /\ b.m = 0 THEN 0
    ELSE IF a.m = 0 THEN -b.s
    ELSE IF b.m = 0 THEN a.s
    ELSE IF a.s # b.s THEN a.s
    ELSE LET ha == a.e + Precision
             hb == b.e + Precision
         IN  IF ha # hb
             THEN (IF ha > hb THEN a.s ELSE -a.s)
             ELSE IF a.m = b.m THEN 0
                  ELSE IF a.m > b.m THEN a.s ELSE -a.s

\* a < b
FLess(a, b) ==
    IF a.k = "nan" \/ b.k = "nan" THEN FALSE
    ELSE IF a.k = "inf" /\ b.k = "inf" THEN a.s < b.s
    ELSE IF a.k = "inf" THEN a.s = -1
    ELSE IF b.k = "inf" THEN b.s = 1
    ELSE CmpFin(a, b) = -1

\* a == b
FEq(a, b) ==
    IF a.k = "nan" \/ b.k = "nan" THEN FALSE
    ELSE IF a.k = "inf" \/ b.k = "inf" THEN a.k = b.k /\ a.s = b.s
    ELSE CmpFin(a, b) = 0

\* a <= b
FLessEq(a, b) == FLess(a, b) \/ FEq(a, b)

\* a > b
FGreater(a, b) == FLess(b, a)

\* ---------------------------------------------------------------- detector

\* The flags and attributes that creme.base.DriftDetector.reset() sets.
DriftDetector_reset(self) ==
    [self EXCEPT !.in_concept_change = FALSE,
                 !.in_warning_zone = FALSE,
                 !.estimation = Zero,
                 !.delay = Zero]

\* A faulty reset(): the assignment of miss_std is missing.
ResetWithoutMissStd(self) ==
    [DriftDetector_reset(self) EXCEPT
        !.sample_count = 1,
        !.miss_prob = One,
        !.miss_prob_sd_min = Inf,
        !.miss_prob_min = Inf,
        !.miss_sd_min = Inf]

\* A faulty reset(): the minimum of p + s is set only while it is unset.
ResetKeepsMinimum(self) ==
    [DriftDetector_reset(self) EXCEPT
        !.sample_count = 1,
        !.miss_prob = One,
        !.miss_std = Zero,
        !.miss_prob_sd_min = IF self.miss_prob_sd_min = None
                             THEN Inf ELSE self.miss_prob_sd_min,
        !.miss_prob_min = Inf,
        !.miss_sd_min = Inf]

\* DDM.reset()
reset(self) ==
    [DriftDetector_reset(self) EXCEPT
        !.sample_count = 1,
        !.miss_prob = One,
        !.miss_std = Zero,
        !.miss_prob_sd_min = Inf,
        !.miss_prob_min = Inf,
        !.miss_sd_min = Inf]

\* DDM.__init__(min_num_instances, warning_level, out_control_level)
DDM_init(min_num_instances, warning_level, out_control_level) ==
    reset([in_concept_change |-> None,
           in_warning_zone   |-> None,
           sample_count      |-> None,
           miss_prob         |-> None,
           miss_std          |-> None,
           miss_prob_sd_min  |-> None,
           miss_prob_min     |-> None,
           miss_sd_min       |-> None,
           min_instances     |-> min_num_instances,
           warning_level     |-> warning_level,
           out_control_level |-> out_control_level,
           estimation        |-> None,
           delay             |-> None])

\* A faulty add_element: the reset after a drift is missing.
NoResetInConceptChange(self) == self

\* A faulty add_element: a warning of the previous call also makes this one
\* start afresh.
ResetIfFlagged(self) ==
    IF self.in_concept_change \/ self.in_warning_zone
    THEN reset(self)
    ELSE self

\* add_element, lines 125-126: the reset that a drift of the previous call
\* leaves to this one.
ResetIfInConceptChange(self) ==
    IF self.in_concept_change THEN reset(self) ELSE self

\* A faulty mean: the divisor is the count after the increment.
UpdateMissProbPostIncrement(self, prediction) ==
    FAdd(self.miss_prob,
         FDiv(FSub(FromInt(prediction), self.miss_prob),
              FromInt(self.sample_count + 1)))

\* add_element, line 128: the incremental mean.
UpdateMissProb(self, prediction) ==
    FAdd(self.miss_prob,
         FDiv(FSub(FromInt(prediction), self.miss_prob),
              FromInt(self.sample_count)))

\* A faulty deviation: p * (p - 1) instead of p * (1 - p).
UpdateMissStdSignSlip(miss_prob, sample_count) ==
    FSqrt(FDiv(FMul(miss_prob, FSub(miss_prob, One)), FromInt(sample_count)))

\* A faulty deviation: the divisor is the count after the increment.
UpdateMissStdPostIncrement(miss_prob, sample_count) ==
    FSqrt(FDiv(FMul(miss_prob, FSub(One, miss_prob)),
               FromInt(sample_count + 1)))

\* add_element, line 129: the standard deviation of the new mean, with the
\* sample_count of before the increment.
UpdateMissStd(miss_prob, sample_count) ==
    FSqrt(FDiv(FMul(miss_prob, FSub(One, miss_prob)), FromInt(sample_count)))

\* add_element, lines 128-135: the statistics, the count, and the flags
\* cleared.
UpdateStatistics(self, prediction) ==
    LET miss_prob == UpdateMissProb(self, prediction)
        miss_std  == UpdateMissStd(miss_prob, self.sample_count)
    IN  [self EXCEPT !.miss_prob = miss_prob,
                     !.miss_std = miss_std,
                     !.sample_count = self.sample_count + 1,
                     !.estimation = miss_prob,
                     !.in_concept_change = FALSE,
                     !.in_warning_zone = FALSE,
                     !.delay = Zero]

\* The early return as it would be if it let the call before the last
\* warm-up call through.
InWarmUpEndsOneCallEarlier(self) == self.sample_count + 1 < self.min_instances

\* add_element, line 137: the guard of the early return.
InWarmUp(self) == self.sample_count < self.min_instances

\* A faulty snapshot: taken when p + s is at least the recorded minimum.
TrackMaximum(self) ==
    IF FLessEq(self.miss_prob_sd_min, FAdd(self.miss_prob, self.miss_std))
    THEN [self EXCEPT !.miss_prob_min = self.miss_prob,
                      !.miss_sd_min = self.miss_std,
                      !.miss_prob_sd_min = FAdd(self.miss_prob, self.miss_std)]
    ELSE self

\* A faulty snapshot: line 142 left out, miss_sd_min never recorded.
TrackMinimumWithoutStd(self) ==
    IF FLessEq(FAdd(self.miss_prob, self.miss_std), self.miss_prob_sd_min)
    THEN [self EXCEPT !.miss_prob_min = self.miss_prob,
                      !.miss_prob_sd_min = FAdd(self.miss_prob, self.miss_std)]
    ELSE self

\* add_element, lines 140-143: the snapshot taken when p + s is minimal.
TrackMinimum(self) ==
    IF FLessEq(FAdd(self.miss_prob, self.miss_std), self.miss_prob_sd_min)
    THEN [self EXCEPT !.miss_prob_min = self.miss_prob,
                      !.miss_sd_min = self.miss_std,
                      !.miss_prob_sd_min = FAdd(self.miss_prob, self.miss_std)]
    ELSE self

\* A faulty condition of a change: >= instead of >.
ExceedsOutControlNonStrict(self) ==
    FLessEq(FAdd(self.miss_prob_min,
                 FMul(self.out_control_level, self.miss_sd_min)),
            FAdd(self.miss_prob, self.miss_std))

\* add_element, line 145: the condition of a change.
ExceedsOutControl(self) ==
    FGreater(FAdd(self.miss_prob, self.miss_std),
             FAdd(self.miss_prob_min,
                  FMul(self.out_control_level, self.miss_sd_min)))

\* A faulty condition of the warning zone: >= instead of >.
ExceedsWarningNonStrict(self) ==
    FLessEq(FAdd(self.miss_prob_min,
                 FMul(self.warning_level, self.miss_sd_min)),
            FAdd(self.miss_prob, self.miss_std))

\* add_element, line 149: the condition of the warning zone.
ExceedsWarning(self) ==
    FGreater(FAdd(self.miss_prob, self.miss_std),
             FAdd(self.miss_prob_min,
                  FMul(self.warning_level, self.miss_sd_min)))

\* A faulty classification: if / if instead of if / elif.
ClassifyWithoutElif(self) ==
    LET drift   == ExceedsOutControl(self)
        warning == ExceedsWarning(self)
    IN  [self EXCEPT !.in_concept_change = drift \/ @,
                     !.in_warning_zone = warning]

\* A faulty classification: the statistics are reset as soon as the change
\* is detected, not at the start of the next call.
ClassifyWithEagerReset(self) ==
    IF ExceedsOutControl(self)
    THEN [reset(self) EXCEPT !.in_concept_change = TRUE]
    ELSE IF ExceedsWarning(self)
         THEN [self EXCEPT !.in_warning_zone = TRUE]
         ELSE [self EXCEPT !.in_warning_zone = FALSE]

\* add_element, lines 145-154: if / elif / else.
Classify(self) ==
    IF ExceedsOutControl(self)
    THEN [self EXCEPT !.in_concept_change = TRUE]
    ELSE IF ExceedsWarning(self)
         THEN [self EXCEPT !.in_warning_zone = TRUE]
         ELSE [self EXCEPT !.in_warning_zone = FALSE]

\* add_element as it would be if the minimum were recorded on every call,
\* ahead of the early return (lines 140-143 placed before line 137).
TrackMinimumBeforeWarmUp(self, prediction) ==
    LET updated == TrackMinimum(
                       UpdateStatistics(ResetIfInConceptChange(self),
                                        prediction))
    IN  IF InWarmUp(updated)
        THEN updated
        ELSE Classify(updated)

\* DDM.add_element(prediction): the object after the call.
add_element(self, prediction) ==
    LET updated == UpdateStatistics(ResetIfInConceptChange(self), prediction)
    IN  IF InWarmUp(updated)
        THEN updated
        ELSE Classify(TrackMinimum(updated))

\* What add_element returns: the two flags of the object it leaves.
Returned(self) == <<self.in_concept_change, self.in_warning_zone>>

\* ------------------------------------------------------------------- state

\* (warning_level, out_control_level): the defaults 2.0 and 3.0, the pair
\* 1.0 and 2.0, and the pair 0.5 and 0.75.
Levels ==
    { <<Lit(2, 0), Lit(3, 0)>>,
      <<Lit(1, 0), Lit(2, 0)>>,
      <<Lit(1, -1), Lit(3, -2)>> }

VARIABLES
    ddm,     \* the detector
    fresh,   \* a second detector, constructed with the same arguments when
             \* ddm was constructed or last reset by its owner, and fed the
             \* same predictions since
    last,    \* the last operation on ddm: its name, its argument, what it
             \* returned, and whether ddm was in concept change, and in the
             \* warning zone, when it began
    calls,   \* add_element calls since the statistics were last reset
    ones,    \* the sum of the predictions of those calls
    resets,  \* the length of the latest run of reset() calls by the owner
    dirty,   \* whether add_element had been called before that run
    min_all, \* the least p + s that a call since the last reset has left
    min_live, \* the same over the calls that went past the early return
    snap     \* <<p, s>> of the latest of those calls whose p + s was at
             \* most the minimum recorded when it was made

vars ==
    <<ddm, fresh, last, calls, ones, resets, dirty, min_all, min_live, snap>>

\* The lesser of two floats.
FMin(a, b) == IF FLess(b, a) THEN b ELSE a

NoResult == <<FALSE, FALSE>>

Init ==
    /\ \E min_num_instances \in 1..MaxMinInstances : \E lv \in Levels :
          /\ ddm = DDM_init(min_num_instances, lv[1], lv[2])
          /\ fresh = DDM_init(min_num_instances, lv[1], lv[2])
    /\ last = [op |-> "init", prediction |-> 0, ret |-> NoResult,
               in_change |-> FALSE, in_warning |-> FALSE]
    /\ calls = 0
    /\ ones = 0
    /\ resets = 0
    /\ dirty = FALSE
    /\ min_all = Inf
    /\ min_live = Inf
    /\ snap = <<Inf, Inf>>

\* The owner calls ddm.add_element(prediction).
AddElement(prediction) ==
    /\ ddm.in_concept_change \/ ddm.sample_count <= MaxSampleCount
    /\ ddm' = add_element(ddm, prediction)
    /\ fresh' = add_element(fresh, prediction)
    /\ last' = [op |-> "add_element", prediction |-> prediction,
                ret |-> Returned(add_element(ddm, prediction)),
                in_change |-> ddm.in_concept_change,
                in_warning |-> ddm.in_warning_zone]
    /\ calls' = IF ddm.in_concept_change THEN 1 ELSE calls + 1
    /\ ones' = IF ddm.in_concept_change THEN prediction ELSE ones + prediction
    /\ UNCHANGED <<resets, dirty>>
    /\ LET after == add_element(ddm, prediction)
           sum   == FAdd(after.miss_prob, after.miss_std)
           live  == after.sample_count >= after.min_instances
           all0  == IF ddm.in_concept_change THEN Inf ELSE min_all
           live0 == IF ddm.in_concept_change THEN Inf ELSE min_live
           snap0 == IF ddm.in_concept_change THEN <<Inf, Inf>> ELSE snap
       IN  /\ min_all' = FMin(all0, sum)
           /\ min_live' = IF live THEN FMin(live0, sum) ELSE live0
           /\ snap' = IF live /\ FLessEq(sum, live0)
                      THEN <<after.miss_prob, after.miss_std>>
                      ELSE snap0

\* The owner calls ddm.reset().
Reset ==
    /\ last.op = "reset" => resets < MaxResets
    /\ ddm' = reset(ddm)
    /\ fresh' = DDM_init(ddm.min_instances, ddm.warning_level,
                         ddm.out_control_level)
    /\ last' = [op |-> "reset", prediction |-> 0, ret |-> NoResult,
                in_change |-> ddm.in_concept_change,
                in_warning |-> ddm.in_warning_zone]
    /\ calls' = 0
    /\ ones' = 0
    /\ min_all' = Inf
    /\ min_live' = Inf
    /\ snap' = <<Inf, Inf>>
    /\ resets' = IF last.op = "reset" THEN resets + 1 ELSE 1
    /\ dirty' = IF last.op = "reset" THEN dirty ELSE last.op = "add_element"

Next ==
    \/ \E prediction \in {0, 1} : AddElement(prediction)
    \/ Reset

Spec == Init /\ [][Next]_vars

\* ------------------------------------------------------------------ claims

\* The operation that led to this state was an add_element call.
AfterAdd == last.op = "add_element"

\* The add_element call that led to this state went past the early return.
AfterLiveAdd == AfterAdd /\ ddm.sample_count >= ddm.min_instances

\* p_i + s_i of the state.
CurrentSum == FAdd(ddm.miss_prob, ddm.miss_std)

\* p_min + level * s_min of the state.
Threshold(level) == FAdd(ddm.miss_prob_min, FMul(level, ddm.miss_sd_min))

\* C1: the i-th add_element call since the last reset (by the owner, by the
\* constructor or by a drift) returns (False, False) whenever
\* i < min_instances.
C1_WarmUpSuppression ==
    (AfterAdd /\ calls < ddm.min_instances) => last.ret = <<FALSE, FALSE>>

\* C2: the add_element call that follows, with no reset() in between, a call
\* that returned in_drift = True computes from the reset statistics: it
\* leaves sample_count = 2, error_rate = the observation, error_std = 0.0,
\* and a minimum that is either still +infinity (warm-up) or the snapshot of
\* this very call.
C2_DriftImpliesResetOnNextCall ==
    [][(AfterAdd /\ last.ret[1] /\ last'.op = "add_element") =>
         /\ ddm'.sample_count = 2
         /\ ddm'.miss_prob = FromInt(last'.prediction)
         /\ ddm'.miss_std = Zero
         /\ IF 2 < ddm.min_instances
            THEN /\ ddm'.miss_prob_sd_min = Inf
                 /\ ddm'.miss_prob_min = Inf
                 /\ ddm'.miss_sd_min = Inf
            ELSE /\ ddm'.miss_prob_sd_min = FromInt(last'.prediction)
                 /\ ddm'.miss_prob_min = FromInt(last'.prediction)
                 /\ ddm'.miss_sd_min = Zero]_vars

\* C2's case: an add_element call that began in concept change has been
\* made and was live, so that it took the snapshot of its own statistics.
C2_Witness ==
    /\ AfterAdd
    /\ last.in_change
    /\ ddm.min_instances = 2
    /\ ddm.miss_prob_min = One

\* C3: add_element never returns (True, True), and the stored flags are
\* never both True.
C3_MutualExclusion ==
    /\ ~(ddm.in_concept_change = TRUE /\ ddm.in_warning_zone = TRUE)
    /\ last.ret # <<TRUE, TRUE>>

\* C3's case: a call whose sum exceeds both thresholds returned drift alone.
C3_Witness ==
    /\ AfterLiveAdd
    /\ FGreater(CurrentSum, Threshold(ddm.warning_level))
    /\ FGreater(CurrentSum, Threshold(ddm.out_control_level))
    /\ last.ret = <<TRUE, FALSE>>

C5_DocumentedConditions ==
    (/\ AfterLiveAdd
     /\ ddm.warning_level = Lit(2, 0)
     /\ ddm.out_control_level = Lit(3, 0)) =>
        /\ FLessEq(Threshold(Lit(3, 0)), CurrentSum) => last.ret[1]
        /\ FLessEq(Threshold(Lit(2, 0)), CurrentSum) =>
               (last.ret[1] \/ last.ret[2])

\* C6: reset() leaves sample_count = 1, error_rate = 1.0, error_std = 0.0
\* and the three minima +infinity, and does not change min_instances,
\* warning_level or out_control_level.
C6_ResetPostcondition ==
    [][last'.op = "reset" =>
         /\ ddm'.sample_count = 1
         /\ ddm'.miss_prob = One
         /\ ddm'.miss_std = Zero
         /\ ddm'.miss_prob_sd_min = Inf
         /\ ddm'.miss_prob_min = Inf
         /\ ddm'.miss_sd_min = Inf
         /\ ddm'.min_instances = ddm.min_instances
         /\ ddm'.warning_level = ddm.warning_level
         /\ ddm'.out_control_level = ddm.out_control_level]_vars

\* C6's case: reset() was called right after a call that returned drift.
C6_Witness ==
    last.op = "reset" /\ last.in_change /\ resets = 1 /\ ddm.sample_count = 1

\* C7: after reset() by the owner, once or several times in a row, the
\* detector equals a freshly constructed one, and so do the results and the
\* states of every add_element call that follows.
C7_IdempotentReset ==
    /\ ddm = fresh
    /\ last.ret = (IF AfterAdd THEN Returned(fresh) ELSE NoResult)

\* C7's case: a used detector was reset twice in a row and then fed until a
\* call returned drift.
C7_Witness ==
    AfterAdd /\ resets = 2 /\ dirty /\ calls >= 3 /\ last.ret[1]

\* The mean (x_1 + ... + x_n) / n of the calls since the last reset, as the
\* nearest float.
MeanOfCalls == FDiv(FromInt(ones), FromInt(calls))

\* C9 as stated: after n >= 1 calls since the last reset error_rate equals
\* the mean of the n observations exactly.
C9_RunningMeanExact ==
    (AfterAdd /\ calls >= 1) => ddm.miss_prob = MeanOfCalls

\* | n * miss_prob - ones | <= n * n * 2^-Precision, in integers: miss_prob
\* is at most 1, so its exponent e is at most 1 - Precision.
WithinRounding ==
    LET e   == ddm.miss_prob.e
        sc  == Pow2(1 - Precision - e)
        err == Abs(ddm.miss_prob.m * calls - ones * Pow2(-e))
    IN  IF ddm.miss_prob.m = 0
        THEN ones = 0
        ELSE e <= 1 - Precision /\ 2 * err <= calls * calls * sc

\* C9 as amended: after n >= 1 calls since the last reset error_rate is the
\* mean of the n observations up to the rounding of the float operations,
\* | error_rate - mean | <= n * 2^-Precision; it is the mean exactly for
\* n = 1 (it equals the first observation, whatever the initial 1.0), and
\* for a stream of equal observations.
C9_RunningMeanRounded ==
    (AfterAdd /\ calls >= 1) =>
        /\ ddm.miss_prob.k = "fin" /\ ddm.miss_prob.s = 1
        /\ WithinRounding
        /\ calls = 1 => ddm.miss_prob = FromInt(last.prediction)
        /\ ones = 0 => ddm.miss_prob = Zero
        /\ ones = calls => ddm.miss_prob = One

\* C9's case: three or more calls since the reset, and a mean that the
\* incremental update has rounded away from the nearest float.
C9_Witness ==
    AfterAdd /\ calls >= 3 /\ ddm.miss_prob # MeanOfCalls /\ WithinRounding

\* C10: error_std >= 0 in every state: the quantity under the square root
\* is never negative, error_rate staying within [0, 1].
C10_ErrorStdNonNegative ==
    /\ FLessEq(Zero, ddm.miss_std)
    /\ FLessEq(Zero, ddm.miss_prob) /\ FLessEq(ddm.miss_prob, One)
    /\ FLessEq(Zero, FMul(ddm.miss_prob, FSub(One, ddm.miss_prob)))

\* C10's case: a call has left a positive deviation computed from a mean
\* that rounding has moved.
C10_Witness ==
    /\ AfterAdd
    /\ FGreater(ddm.miss_std, Zero)
    /\ calls >= 3
    /\ ddm.miss_prob # MeanOfCalls

Minima(self) ==
    <<self.miss_prob_sd_min, self.miss_prob_min, self.miss_sd_min>>

\* An add_element call that ends with sample_count < min_instances.
WarmUpCall == last'.op = "add_element" /\ ddm'.sample_count < ddm'.min_instances

\* C13 as stated: every add_element call whose sample_count after the
\* increment is below min_instances returns (False, False) and leaves
\* miss_prob_sd_min, miss_prob_min and miss_sd_min as they were before it.
C13_WarmUpLeavesMinimaUnchanged ==
    [][WarmUpCall => /\ last'.ret = <<FALSE, FALSE>>
                     /\ Minima(ddm') = Minima(ddm)]_vars

\* C13 amended: such a call returns (False, False) and leaves the three
\* minima at +infinity; they are as they were before the call unless the
\* call began in concept change, when it is the reset at its start that
\* set them to +infinity.
C13_WarmUpLeavesMinimaAtInfinity ==
    [][WarmUpCall => /\ last'.ret = <<FALSE, FALSE>>
                     /\ Minima(ddm') = <<Inf, Inf, Inf>>
                     /\ ~ddm.in_concept_change => Minima(ddm') = Minima(ddm)]_vars

\* A second or later call that returned early although the stream so far
\* holds both a 0 and a 1, so that p + s > 0 was there to be recorded.
C13_Witness ==
    /\ AfterAdd
    /\ ddm.sample_count < ddm.min_instances
    /\ ones >= 1
    /\ ones < calls
    /\ FGreater(CurrentSum, Zero)
    /\ last.ret = <<FALSE, FALSE>>
    /\ Minima(ddm) = <<Inf, Inf, Inf>>

StdUnit ==
    LET ep == 2 * ddm.miss_prob.e
        es == 2 * ddm.miss_std.e
    IN  IF es < ep THEN es ELSE ep

StdIdentityError ==
    LET p == ddm.miss_prob
        q == ddm.miss_std
        lhs == q.m * q.m * calls * Pow2(2 * q.e - StdUnit)
        rhs == p.m * (Pow2(-p.e) - p.m) * Pow2(2 * p.e - StdUnit)
    IN  Abs(lhs - rhs)

\* C15 as stated: after n >= 1 calls since the last reset sample_count is
\* n + 1 and miss_std^2 * n = miss_prob * (1 - miss_prob); sample_count >= 1
\* in every reachable state.
C15_PreIncrementCountExact ==
    /\ ddm.sample_count >= 1
    /\ (AfterAdd /\ calls >= 1) =>
           /\ ddm.sample_count = calls + 1
           /\ StdIdentityError = 0

\* C15 amended: after n >= 1 calls since the last reset sample_count is
\* n + 1, miss_prob is the mean over n observations up to rounding,
\* miss_std is the float sqrt(miss_prob * (1 - miss_prob) / n) with that
\* same n, so that | miss_std^2 * n - miss_prob * (1 - miss_prob) | <=
\* 2^(1 - Precision), with equality to 0 when miss_std is 0; sample_count
\* >= 1 in every reachable state.
C15_PreIncrementCountRounded ==
    /\ ddm.sample_count >= 1
    /\ (AfterAdd /\ calls >= 1) =>
           /\ ddm.sample_count = calls + 1
           /\ WithinRounding
           /\ calls = 1 => ddm.miss_prob = FromInt(last.prediction)
           /\ ddm.miss_std =
                  FSqrt(FDiv(FMul(ddm.miss_prob, FSub(One, ddm.miss_prob)),
                             FromInt(calls)))
           /\ IF ddm.miss_std = Zero
              THEN StdIdentityError = 0
              ELSE /\ StdUnit <= 1 - Precision
                   /\ StdIdentityError <= Pow2(1 - Precision - StdUnit)

\* Two or more calls since the reset, a stream with both a 0 and a 1, and a
\* deviation whose square times n is not miss_prob * (1 - miss_prob).
C15_Witness ==
    /\ AfterAdd
    /\ calls >= 2
    /\ ddm.sample_count = calls + 1
    /\ FGreater(ddm.miss_std, Zero)
    /\ StdIdentityError > 0
    /\ StdIdentityError <= Pow2(1 - Precision - StdUnit)

\* C16: in every reachable state miss_prob_sd_min = miss_prob_min +
\* miss_sd_min, the three being all +infinity or all finite, and when finite
\* miss_prob_min and miss_sd_min are the miss_prob and miss_std left by one
\* and the same call: the latest call since the last reset that went past
\* the early return with p + s <= the minimum recorded until then.
C16_CoupledSnapshot ==
    /\ ddm.miss_prob_sd_min = FAdd(ddm.miss_prob_min, ddm.miss_sd_min)
    /\ \/ Minima(ddm) = <<Inf, Inf, Inf>>
       \/ /\ FLess(ddm.miss_prob_sd_min, Inf)
          /\ FLess(ddm.miss_prob_min, Inf)
          /\ FLess(ddm.miss_sd_min, Inf)
    /\ <<ddm.miss_prob_min, ddm.miss_sd_min>> = snap

\* A finite snapshot with a positive deviation, taken by an earlier call
\* than the last one, whose own statistics differ from it.
C16_Witness ==
    /\ AfterLiveAdd
    /\ calls >= 3
    /\ FLess(ddm.miss_prob_sd_min, Inf)
    /\ FGreater(ddm.miss_sd_min, Zero)
    /\ ddm.miss_prob_min # ddm.miss_prob
    /\ ddm.miss_sd_min # ddm.miss_std
    /\ <<ddm.miss_prob_min, ddm.miss_sd_min>> = snap

\* C17: the add_element call that returns a change does not reset the
\* statistics: it leaves sample_count one above its value before the call
\* (so above 1) and above the count of calls since the last reset,
\* miss_prob and miss_std as just computed from those calls, the three
\* minima finite, and in_concept_change set for the next call, which starts
\* with the reset and leaves sample_count = 2.
C17_DriftCallDoesNotReset ==
    [][/\ (last'.op = "add_element" /\ ddm.in_concept_change) =>
              ddm'.sample_count = 2
       /\ (last'.op = "add_element" /\ last'.ret[1]) =>
           /\ ddm'.sample_count = ddm.sample_count + 1
           /\ ddm'.sample_count > 1
           /\ ddm'.sample_count = calls' + 1
           /\ ddm'.miss_prob = UpdateMissProb(ddm, last'.prediction)
           /\ ddm'.miss_std = UpdateMissStd(ddm'.miss_prob, ddm.sample_count)
           /\ FGreater(ddm'.miss_std, Zero)
           /\ FLess(ddm'.miss_prob_sd_min, Inf)
           /\ FLess(ddm'.miss_prob_min, Inf)
           /\ FLess(ddm'.miss_sd_min, Inf)
           /\ ddm'.miss_prob_sd_min = min_live'
           /\ ddm'.in_concept_change]_vars

\* A change detected at the third call or later, against a snapshot that an
\* earlier call has taken: nothing is reset yet.
C17_Witness ==
    /\ AfterAdd
    /\ last.ret[1]
    /\ ddm.in_concept_change
    /\ calls >= 3
    /\ ddm.sample_count = calls + 1
    /\ FGreater(ddm.miss_std, Zero)
    /\ FLess(ddm.miss_prob_sd_min, CurrentSum)
    /\ ddm.miss_prob_min # ddm.miss_prob

\* C18: when an add_element call that did not return a change is followed
\* by another add_element call, the second call resets nothing: it leaves
\* sample_count one higher, and the minima either as they were or as a new
\* snapshot of its own statistics, whose p + s is <= the minimum it found;
\* whether the first call returned a warning changes nothing in the second
\* call's result and state.
C18_OnlyDriftSchedulesReset ==
    [][(last.op = "add_element" /\ ~last.ret[1] /\ last'.op = "add_element") =>
           /\ ddm'.sample_count = ddm.sample_count + 1
           /\ calls' = calls + 1
           /\ \/ Minima(ddm') = Minima(ddm)
              \/ /\ FLessEq(FAdd(ddm'.miss_prob, ddm'.miss_std),
                             ddm.miss_prob_sd_min)
                 /\ Minima(ddm') = <<FAdd(ddm'.miss_prob, ddm'.miss_std),
                                     ddm'.miss_prob, ddm'.miss_std>>
           /\ ddm' = add_element([ddm EXCEPT !.in_warning_zone = ~@],
                                 last'.prediction)
           /\ last'.ret =
                  Returned(add_element([ddm EXCEPT !.in_warning_zone = ~@],
                                       last'.prediction))]_vars

\* A call made on a detector that the call before it had left in the warning
\* zone: it went on counting, kept the finite snapshot, and returned to
\* normal.
C18_Witness ==
    /\ AfterLiveAdd
    /\ last.in_warning
    /\ ~last.in_change
    /\ calls >= 3
    /\ ddm.sample_count = calls + 1
    /\ FLess(ddm.miss_prob_sd_min, Inf)
    /\ FGreater(ddm.miss_sd_min, Zero)
    /\ last.ret = <<FALSE, FALSE>>

ConstantStream == ones = 0 \/ ones = calls

====
